---- MODULE Spec2Model ----
(***************************************************************************)
(* A model of the SKPSHeatmap keypoint codec                               *)
(* (projects/skps/codecs2/skps_heatmap.py): construction, encode,          *)
(* generate_offside_heatmap and decode.                                    *)
(*                                                                         *)
(* Numbers are exact rationals <<n, d>> (d > 0, lowest terms): float32     *)
(* rounding is not modelled.  An ndarray is a nested function on 0-based   *)
(* index ranges, so its shape can be read back from its domains.           *)
(***************************************************************************)
EXTENDS Integers, Sequences, FiniteSets, TLC

\* ------------------------------------------------------------------ bounds
MaxK == 2        \* most keypoints per instance
MaxW == 3        \* widest heatmap
MaxH == 2        \* tallest heatmap

\* ------------------------------------------------------- exact arithmetic
Abs(n) == IF n < 0 THEN -n ELSE n

RECURSIVE Gcd(_, _)
Gcd(a, b) == IF b = 0 THEN a ELSE Gcd(b, a % b)

\* the rational n/d in lowest terms with a positive denominator
Rat(n, d) ==
    LET s == IF d < 0 THEN -1 ELSE 1
        g == Gcd(Abs(n), Abs(d))
    IN  <<(s * n) \div g, (s * d) \div g>>

FromInt(n) == <<n, 1>>
RAdd(a, b) == Rat(a[1] * b[2] + b[1] * a[2], a[2] * b[2])
RSub(a, b) == Rat(a[1] * b[2] - b[1] * a[2], a[2] * b[2])
RMul(a, b) == Rat(a[1] * b[1], a[2] * b[2])
RDiv(a, b) == Rat(a[1] * b[2], a[2] * b[1])
RLt(a, b) == a[1] * b[2] < b[1] * a[2]
RLe(a, b) == a[1] * b[2] <= b[1] * a[2]
RZero == FromInt(0)

\* -------------------------------------------------------------- ndarrays
Size(a) == Cardinality(DOMAIN a)
Ix(n) == 0 .. (n - 1)

\* np.arange(0, n)
arange(n) == [i \in Ix(n) |-> i]

\* variant: np.meshgrid's default 'xy' indexing, grids of shape
\* (len(b), len(a))
meshgrid_xy(a, b) ==
    << [i \in DOMAIN b |-> [j \in DOMAIN a |-> a[j]]],
       [i \in DOMAIN b |-> [j \in DOMAIN a |-> b[i]]] >>
\* np.meshgrid(a, b, indexing='ij'): two grids of shape (len(a), len(b))
meshgrid_ij(a, b) ==
    << [i \in DOMAIN a |-> [j \in DOMAIN b |-> a[i]]],
       [i \in DOMAIN a |-> [j \in DOMAIN b |-> b[j]]] >>

\* np.expand_dims(g, axis=-1) of a 2-d grid: shape (H, W, 1)
expand_dims_last(g) ==
    [r \in DOMAIN g |-> [c \in DOMAIN g[r] |-> [z \in Ix(1) |-> g[r][c]]]]

\* v - g for v of shape (K,) and g of shape (H, W, 1): numpy broadcasts the
\* pair to (H, W, K)
broadcast_sub(v, g) ==
    [r \in DOMAIN g |-> [c \in DOMAIN g[r] |->
        [k \in DOMAIN v |-> RSub(v[k], FromInt(g[r][c][0]))]]]

\* variant: np.concatenate([b, a], axis=-1)
concatenate_last_rev(a, b) ==
    [r \in DOMAIN a |-> [c \in DOMAIN a[r] |->
        LET na == Size(a[r][c])
            nb == Size(b[r][c])
        IN  [j \in Ix(na + nb) |->
                IF j < nb THEN b[r][c][j] ELSE a[r][c][j - nb]]]]
\* np.concatenate([a, b], axis=-1) of two 3-d arrays
concatenate_last(a, b) ==
    [r \in DOMAIN a |-> [c \in DOMAIN a[r] |->
        LET na == Size(a[r][c])
            nb == Size(b[r][c])
        IN  [j \in Ix(na + nb) |->
                IF j < na THEN a[r][c][j] ELSE b[r][c][j - na]]]]

\* variant: np.transpose(m, axes=[2, 1, 0])
transpose_210(m) ==
    LET n0 == Size(m)
        n1 == IF n0 = 0 THEN 0 ELSE Size(m[0])
        n2 == IF n1 = 0 THEN 0 ELSE Size(m[0][0])
    IN  [j \in Ix(n2) |-> [c \in Ix(n1) |-> [r \in Ix(n0) |-> m[r][c][j]]]]
\* np.transpose(m, axes=[2, 0, 1]) of a 3-d array: out[j][r][c] = m[r][c][j]
transpose_201(m) ==
    LET n0 == Size(m)
        n1 == IF n0 = 0 THEN 0 ELSE Size(m[0])
        n2 == IF n1 = 0 THEN 0 ELSE Size(m[0][0])
    IN  [j \in Ix(n2) |-> [r \in Ix(n0) |-> [c \in Ix(n1) |-> m[r][c][j]]]]

\* a[:, d] of a 2-d array
column(a, d) == [k \in DOMAIN a |-> a[k][d]]

\* a[lo:hi] on the first axis, numpy's clipping of the slice bounds included
slice(a, lo, hi) ==
    LET n == Size(a)
        l == IF lo > n THEN n ELSE lo
        h == IF hi > n THEN n ELSE hi
        m == IF h > l THEN h - l ELSE 0
    IN  [i \in Ix(m) |-> a[l + i]]

\* the shape of a 3-d array, a 2-d array and a 1-d array
shape3(a) ==
    LET n0 == Size(a)
        n1 == IF n0 = 0 THEN 0 ELSE Size(a[0])
        n2 == IF n1 = 0 THEN 0 ELSE Size(a[0][0])
    IN  <<n0, n1, n2>>
shape2(a) == LET n0 == Size(a) IN <<n0, IF n0 = 0 THEN 0 ELSE Size(a[0])>>
shape1(a) == <<Size(a)>>

\* ------------------------------------------------------------ construction
\* SKPSHeatmap.__init__
SKPSHeatmap_init(input_size, heatmap_size, sigma) ==
    LET grids == meshgrid_ij(arange(heatmap_size[2]), arange(heatmap_size[1]))
    IN  [ input_size   |-> input_size,
          heatmap_size |-> heatmap_size,
          sigma        |-> sigma,
          scale_factor |-> [d \in Ix(2) |->
                               Rat(input_size[d + 1], heatmap_size[d + 1])],
          y_range      |-> grids[1],
          x_range      |-> grids[2] ]

\* keypoints / self.scale_factor: the last axis is divided elementwise
div_scale(keypoints, scale_factor) ==
    [n \in DOMAIN keypoints |-> [k \in DOMAIN keypoints[n] |->
        [d \in DOMAIN keypoints[n][k] |->
            RDiv(keypoints[n][k][d], scale_factor[d])]]]

\* variant: the scale is not restored
mul_scale_none(points, scale_factor) == points
\* keypoints_decimal * self.scale_factor
mul_scale(points, scale_factor) ==
    [k \in DOMAIN points |-> [d \in DOMAIN points[k] |->
        RMul(points[k][d], scale_factor[d])]]

\* ------------------------------------------------------------ offset field
\* SKPSHeatmap.generate_offside_heatmap; keypoints are in heatmap space
generate_offside_heatmap(self, heatmap_size, keypoints) ==
    LET kps         == keypoints[0]
        offside_x   == broadcast_sub(column(kps, 0), expand_dims_last(self.x_range))
        offside_y   == broadcast_sub(column(kps, 1), expand_dims_last(self.y_range))
        offside_map == concatenate_last(offside_x, offside_y)
    IN  transpose_201(offside_map)

\* ------------------------------------------------------- heatmap generator
\* The response of one keypoint at one cell.  The generator evaluates a
\* Gaussian of the squared distance d2 to the sub-pixel centre; the model
\* keeps its order and its peak value 1 with 2s^2 / (2s^2 + d2).
response(mu, row, col, sigma) ==
    LET dx == RSub(FromInt(col), mu[0])
        dy == RSub(FromInt(row), mu[1])
        d2 == RAdd(RMul(dx, dx), RMul(dy, dy))
        s2 == FromInt(2 * sigma * sigma)
    IN  RDiv(s2, RAdd(s2, d2))

\* a scaled keypoint lies in [0, W) x [0, H)
in_bounds(mu, W, H) ==
    /\ RLe(RZero, mu[0]) /\ RLt(mu[0], FromInt(W))
    /\ RLe(RZero, mu[1]) /\ RLt(mu[1], FromInt(H))

RMaxOf(S) == CHOOSE v \in S : \A u \in S : RLe(u, v)

\* generate_unbiased_gaussian_heatmaps(heatmap_size, keypoints,
\* keypoints_visible, sigma) -> <<heatmaps (K,H,W), keypoint_weights (N,K)>>
generate_unbiased_gaussian_heatmaps(heatmap_size, keypoints, keypoints_visible, sigma) ==
    LET W == heatmap_size[1]
        H == heatmap_size[2]
        N == Size(keypoints)
        K == IF N = 0 THEN 0 ELSE Size(keypoints[0])
        drawn(n, k) == /\ keypoints_visible[n][k] >= 1
                       /\ in_bounds(keypoints[n][k], W, H)
        heatmaps ==
            [k \in Ix(K) |-> [r \in Ix(H) |-> [c \in Ix(W) |->
                RMaxOf({RZero} \cup
                       {response(keypoints[n][k], r, c, sigma) :
                            n \in {m \in Ix(N) : drawn(m, k)}})]]]
        keypoint_weights ==
            [n \in Ix(N) |-> [k \in Ix(K) |->
                IF drawn(n, k) THEN keypoints_visible[n][k] ELSE 0]]
    IN  <<heatmaps, keypoint_weights>>

\* ------------------------------------------------------------- peak finder
\* get_heatmap_maximum(heatmaps) -> [locs (K,2) as (x = col, y = row),
\* vals (K,)]: the first maximum of each channel in row-major order, and
\* (-1, -1) for a channel whose maximum is not positive
get_heatmap_maximum(heatmaps) ==
    LET sh == shape3(heatmaps)
        K  == sh[1]
        H  == sh[2]
        W  == sh[3]
        at(k, f) == heatmaps[k][f \div W][f % W]
        argmax == [k \in Ix(K) |->
                     CHOOSE f \in Ix(H * W) :
                        /\ \A g \in Ix(H * W) : RLe(at(k, g), at(k, f))
                        /\ \A g \in Ix(f) : RLt(at(k, g), at(k, f))]
        vals == [k \in Ix(K) |-> at(k, argmax[k])]
    IN  [ locs |-> [k \in Ix(K) |->
                      IF RLe(vals[k], RZero)
                      THEN [d \in Ix(2) |-> FromInt(-1)]
                      ELSE [d \in Ix(2) |->
                              IF d = 0 THEN FromInt(argmax[k] % W)
                                       ELSE FromInt(argmax[k] \div W)]],
          vals |-> vals ]

\* ------------------------------------------------------------------ encode
\* np.ones(keypoints.shape[:2])
ones_like_visible(keypoints) ==
    [n \in DOMAIN keypoints |-> [k \in DOMAIN keypoints[n] |-> 1]]

\* variant: assert keypoints.shape[0] >= 1
single_instance_any(keypoints) == Size(keypoints) >= 1
\* assert keypoints.shape[0] == 1
single_instance(keypoints) == Size(keypoints) = 1

\* SKPSHeatmap.encode; keypoints_visible is [is_none |-> TRUE] or
\* [is_none |-> FALSE, value |-> an (N, K) array]
encode(self, keypoints, keypoints_visible) ==
    IF ~single_instance(keypoints)
    THEN [status |-> "AssertionError"]
    ELSE LET visible == IF keypoints_visible.is_none
                        THEN ones_like_visible(keypoints)
                        ELSE keypoints_visible.value
             scaled  == div_scale(keypoints, self.scale_factor)
             hw      == generate_unbiased_gaussian_heatmaps(
                            self.heatmap_size, scaled, visible, self.sigma)
             offside_heatmap ==
                        generate_offside_heatmap(self, self.heatmap_size, scaled)
         IN  [ status           |-> "ok",
               heatmaps         |-> hw[1],
               keypoint_weights |-> hw[2][0],
               displacements    |-> offside_heatmap ]

\* ------------------------------------------------------------------ decode
\* a.astype(np.int32) of one number: truncation toward zero
astype_int32(q) ==
    IF q[1] >= 0 THEN q[1] \div q[2] ELSE -((-q[1]) \div q[2])

\* numpy's a[i] on the first axis: a negative index counts from the end,
\* an index outside -n .. n-1 raises IndexError
index_ok(a, i) == -Size(a) <= i /\ i < Size(a)
index_at(a, i) == IF i < 0 THEN a[Size(a) + i] ELSE a[i]

\* a[i, y, x]
get3(a, i, y, x) ==
    IF ~index_ok(a, i) THEN [ok |-> FALSE]
    ELSE LET b == index_at(a, i)
         IN  IF ~index_ok(b, y) THEN [ok |-> FALSE]
             ELSE LET c == index_at(b, y)
                  IN  IF ~index_ok(c, x) THEN [ok |-> FALSE]
                      ELSE [ok |-> TRUE, val |-> index_at(c, x)]

\* variants: each coordinate clamped on its own; no clamp at all
clamp_each(x, y) == <<IF x < 0 THEN 0 ELSE x, IF y < 0 THEN 0 ELSE y>>
clamp_none(x, y) == <<x, y>>
\* the cell the loop body reads for the integer peak (x, y):
\* if x < 0 or y < 0: x = y = 0
clamp(x, y) == IF x < 0 \/ y < 0 THEN <<0, 0>> ELSE <<x, y>>

\* the two reads of the loop body at cell (x, y) of channel i
read_offsides(offside_x, offside_y, i, x, y) ==
    <<get3(offside_x, i, y, x), get3(offside_y, i, y, x)>>

\* one iteration of decode's loop for channel i with integer peak (x0, y0)
decode_keypoint(offside_x, offside_y, i, x0, y0) ==
    LET xy == clamp(x0, y0)
        x  == xy[1]
        y  == xy[2]
        rd == read_offsides(offside_x, offside_y, i, x, y)
    IN  IF rd[1].ok /\ rd[2].ok
        THEN [ok |-> TRUE,
              val |-> [d \in Ix(2) |->
                         IF d = 0 THEN RAdd(FromInt(x), rd[1].val)
                                  ELSE RAdd(FromInt(y), rd[2].val)]]
        ELSE [ok |-> FALSE]

\* offside[:K] and offside[K:]
split_offside(offside, K) ==
    <<slice(offside, 0, K), slice(offside, K, Size(offside))>>

\* variant: decode works on the caller's arrays and clears the field
args_overwritten(encoded, offside) ==
    <<encoded, [c \in DOMAIN offside |-> [r \in DOMAIN offside[c] |->
                   [x \in DOMAIN offside[c][r] |-> RZero]]]>>
\* the caller's arrays after decode returns: decode works on copies
args_after_decode(encoded, offside) == <<encoded, offside>>

\* SKPSHeatmap.decode
decode(self, encoded, offside) ==
    LET heatmaps == encoded
        K        == shape3(heatmaps)[1]
        peak     == get_heatmap_maximum(heatmaps)
        halves   == split_offside(offside, K)
        keypoints_interger ==
            [k \in Ix(K) |-> [d \in Ix(2) |-> astype_int32(peak.locs[k][d])]]
        loop == [i \in Ix(K) |->
                    decode_keypoint(halves[1], halves[2], i,
                                    keypoints_interger[i][0],
                                    keypoints_interger[i][1])]
    IN  IF \E i \in Ix(K) : ~loop[i].ok
        THEN [status |-> "IndexError"]
        ELSE [ status    |-> "ok",
               keypoints |-> [n \in Ix(1) |->
                                mul_scale([i \in Ix(K) |-> loop[i].val],
                                          self.scale_factor)],
               scores    |-> [n \in Ix(1) |-> peak.vals] ]

\* =================================================================== state
VARIABLES
    self,               \* the codec instance: the fields __init__ sets
    ctor,               \* the arguments the instance was constructed with
    phase,              \* the caller: "idle", "encoded" or "decoded"
    keypoints,          \* the keypoints of the last encode call
    keypoints_visible,  \* and its visibility argument
    encoded,            \* what the last encode call returned
    given_heatmaps,     \* the heatmaps handed to the last decode call
    given_offside,      \* and the displacement field handed to it
    arg_heatmaps,       \* the caller's two arrays after that call returned
    arg_offside,
    decoded,            \* what the last decode call returned
    calls               \* the calls in progress on concurrent threads

vars == <<self, ctor, phase, keypoints, keypoints_visible, encoded,
          given_heatmaps, given_offside, arg_heatmaps, arg_offside,
          decoded, calls>>

Nil == [status |-> "none"]

\* ------------------------------------------------------------------ inputs
HeatmapSizes == (1 .. MaxW) \X (1 .. MaxH)
InputSizes(hs) == { <<2 * hs[1], hs[2]>>, <<hs[1] + 1, 2 * hs[2]>> }
Sigmas == {2}
Ctors == UNION { { <<is, hs, sg>> : is \in InputSizes(hs), sg \in Sigmas } :
                   hs \in HeatmapSizes }

\* input-image points with integer coordinates, one pixel outside the image
\* on every side included
Points(c) == { [d \in Ix(2) |-> FromInt(IF d = 0 THEN x ELSE y)] :
                 x \in -1 .. c.input_size[1], y \in -1 .. c.input_size[2] }
Step == <<2, -1>>
shifted(p, s, j) == [d \in Ix(2) |-> RAdd(p[d], FromInt(j * s[d + 1]))]

\* N instances of K keypoints: the first at p, each next one a step further
KeypointSet(N, K, p) ==
    [n \in Ix(N) |-> [k \in Ix(K) |-> shifted(p, Step, n * K + k)]]

\* the visibility argument: absent, or a mask with all keypoints, all but
\* the first, or none of them visible
VisibleArgs(N, K) ==
    { [is_none |-> TRUE] } \cup
    { [is_none |-> FALSE,
       value |-> [n \in Ix(N) |-> [k \in Ix(K) |-> IF k < z THEN 0 ELSE 1]]] :
        z \in IF N = 1 THEN {1, K} ELSE {0} }

\* heatmaps of the codec's size: channel k peaks at the (p + k)-th cell in
\* row-major order, but for one channel z (none, or each channel in turn
\* as p grows) that is all zero, or all of one value v
HeatmapInputs(K, hs) ==
    LET W == hs[1]
        H == hs[2]
        one(p, z, v) ==
            [k \in Ix(K) |-> [r \in Ix(H) |-> [c \in Ix(W) |->
                IF k = z THEN FromInt(v)
                ELSE IF r * W + c = (p + k) % (H * W) THEN FromInt(1)
                ELSE RZero]]]
    IN  { one(p, ((p + K) % (K + 1)) - 1, 0) : p \in Ix(H * W) }
        \cup { one(0, 0, v) : v \in {-1, 1} }

\* displacement fields of C channels whose every cell holds its own value,
\* and the all-zero field
OffsideInputs(C, hs) ==
    { [c \in Ix(C) |-> [r \in Ix(hs[2]) |-> [x \in Ix(hs[1]) |->
          Rat(t * (100 * (c + 1) + 10 * r + x), 2)]]] : t \in {0, 1} }

\* ------------------------------------------------------------------- Init
Init ==
    /\ ctor \in Ctors
    /\ self = SKPSHeatmap_init(ctor[1], ctor[2], ctor[3])
    /\ phase = "idle"
    /\ keypoints = <<>>
    /\ keypoints_visible = [is_none |-> TRUE]
    /\ encoded = Nil
    /\ given_heatmaps = <<>>
    /\ given_offside = <<>>
    /\ arg_heatmaps = <<>>
    /\ arg_offside = <<>>
    /\ decoded = Nil
    /\ calls = <<>>

\* ---------------------------------------------------------------- actions
\* the caller encodes a keypoint set
Encode ==
    /\ phase = "idle"
    /\ \E N \in 0 .. 2, K \in 1 .. MaxK, p \in Points(self) :
         \E v \in VisibleArgs(N, K) :
            /\ keypoints' = KeypointSet(N, K, p)
            /\ keypoints_visible' = v
            /\ encoded' = encode(self, keypoints', v)
    /\ phase' = "encoded"
    /\ UNCHANGED <<self, ctor, given_heatmaps, given_offside, arg_heatmaps,
                   arg_offside, decoded, calls>>

\* decode of the two arrays hm and off the caller holds
DecodeOf(hm, off) ==
    /\ given_heatmaps' = hm
    /\ given_offside' = off
    /\ decoded' = decode(self, hm, off)
    /\ LET after == args_after_decode(hm, off)
       IN  arg_heatmaps' = after[1] /\ arg_offside' = after[2]
    /\ phase' = "decoded"
    /\ UNCHANGED <<self, ctor, calls>>

\* the caller decodes the displacement field encode returned, with the
\* heatmaps encode returned or with other heatmaps of the same size
DecodeEncoded ==
    /\ phase = "encoded"
    /\ encoded.status = "ok"
    /\ \E hm \in {encoded.heatmaps}
                   \cup HeatmapInputs(Size(encoded.heatmaps), self.heatmap_size) :
         DecodeOf(hm, encoded.displacements)
    /\ UNCHANGED <<keypoints, keypoints_visible, encoded>>

\* the caller decodes arrays of its own (a network's predictions), the
\* displacement field with 2K channels or with another number of them
DecodeGiven ==
    /\ phase = "idle"
    /\ \E K \in 1 .. MaxK :
         \E hm \in HeatmapInputs(K, self.heatmap_size), C \in (2 * K - 2) .. (2 * K + 2) :
            \E off \in OffsideInputs(C, self.heatmap_size) :
               DecodeOf(hm, off)
    /\ UNCHANGED <<keypoints, keypoints_visible, encoded>>

\* the caller drops the results
Finish ==
    /\ phase \in {"encoded", "decoded"}
    /\ phase' = "idle"
    /\ keypoints' = <<>>
    /\ keypoints_visible' = [is_none |-> TRUE]
    /\ encoded' = Nil
    /\ given_heatmaps' = <<>>
    /\ given_offside' = <<>>
    /\ arg_heatmaps' = <<>>
    /\ arg_offside' = <<>>
    /\ decoded' = Nil
    /\ UNCHANGED <<self, ctor, calls>>

Next == Encode \/ DecodeEncoded \/ DecodeGiven \/ Finish

Spec == Init /\ [][Next]_vars

\* ====================================================== concurrent callers
\* Threads that call encode and decode on the one instance, a statement
\* group at a time.
Threads == {1, 2}
Idle == [pc |-> "idle", op |-> "none", a1 |-> <<>>, a2 |-> <<>>,
         loc |-> <<>>, ret |-> Nil]

seq_vars == <<phase, keypoints, keypoints_visible, encoded, given_heatmaps,
              given_offside, arg_heatmaps, arg_offside, decoded>>

\* the instances the threads share: the largest heatmap
ConcCtors == { c \in Ctors : c[2] = <<MaxW, MaxH>> }
ConcPoints(c) == { p \in Points(c) :
                     \/ p[0] = FromInt(1) /\ p[1] = FromInt(1)
                     \/ p[0] = FromInt(c.input_size[1] - 2) /\ p[1] = FromInt(0) }
ConcHeatmaps(K, hs) ==
    { hm \in HeatmapInputs(K, hs) :
        \/ hm[0][0][0] = FromInt(1)
        \/ hm[0][hs[2] - 1][hs[1] - 1] = FromInt(1) }

ConcInit ==
    /\ ctor \in ConcCtors
    /\ self = SKPSHeatmap_init(ctor[1], ctor[2], ctor[3])
    /\ phase = "idle"
    /\ keypoints = <<>>
    /\ keypoints_visible = [is_none |-> TRUE]
    /\ encoded = Nil
    /\ given_heatmaps = <<>>
    /\ given_offside = <<>>
    /\ arg_heatmaps = <<>>
    /\ arg_offside = <<>>
    /\ decoded = Nil
    /\ calls = [t \in Threads |-> Idle]

\* variant: the x grid is shifted in place
self_grids_shifted(s) ==
    [s EXCEPT !.x_range = [r \in DOMAIN s.x_range |->
                             [c \in DOMAIN s.x_range[r] |-> s.x_range[r][c] + 1]]]
\* self after generate_offside_heatmap has read the two grids:
\* np.expand_dims returns a view and the subtraction a new array
self_after_offside(s) == s

\* thread t calls encode
CallEncode(t) ==
    /\ calls[t].pc = "idle"
    /\ \E N \in 1 .. 2, K \in {1, MaxK}, p \in ConcPoints(self) :
         \E v \in { w \in VisibleArgs(N, K) : w.is_none \/ w.value[0][0] = 0 } :
            calls' = [calls EXCEPT ![t] =
                        [Idle EXCEPT !.pc = "enc_assert", !.op = "encode",
                                     !.a1 = KeypointSet(N, K, p), !.a2 = v]]
    /\ UNCHANGED <<self, ctor, seq_vars>>

\* the assertion, and the default of keypoints_visible
EncAssert(t) ==
    /\ calls[t].pc = "enc_assert"
    /\ calls' = [calls EXCEPT ![t] =
          IF ~single_instance(calls[t].a1)
          THEN [@ EXCEPT !.pc = "done", !.ret = [status |-> "AssertionError"]]
          ELSE [@ EXCEPT !.pc = "enc_heatmaps",
                         !.loc = [visible |-> IF calls[t].a2.is_none
                                              THEN ones_like_visible(calls[t].a1)
                                              ELSE calls[t].a2.value]]]
    /\ UNCHANGED <<self, ctor, seq_vars>>

\* heatmaps, keypoint_weights = generate_unbiased_gaussian_heatmaps(...)
EncHeatmaps(t) ==
    /\ calls[t].pc = "enc_heatmaps"
    /\ calls' = [calls EXCEPT ![t] =
          [@ EXCEPT !.pc = "enc_offside",
                    !.loc = [hw |-> generate_unbiased_gaussian_heatmaps(
                                       self.heatmap_size,
                                       div_scale(calls[t].a1, self.scale_factor),
                                       calls[t].loc.visible, self.sigma)]]]
    /\ UNCHANGED <<self, ctor, seq_vars>>

\* offside_heatmap = self.generate_offside_heatmap(...), and the return
EncOffside(t) ==
    /\ calls[t].pc = "enc_offside"
    /\ calls' = [calls EXCEPT ![t] =
          [@ EXCEPT !.pc = "done", !.loc = <<>>,
                    !.ret = [ status           |-> "ok",
                              heatmaps         |-> calls[t].loc.hw[1],
                              keypoint_weights |-> calls[t].loc.hw[2][0],
                              displacements    |->
                                 generate_offside_heatmap(
                                    self, self.heatmap_size,
                                    div_scale(calls[t].a1, self.scale_factor)) ]]]
    /\ self' = self_after_offside(self)
    /\ UNCHANGED <<ctor, seq_vars>>

\* thread t calls decode
CallDecode(t) ==
    /\ calls[t].pc = "idle"
    /\ \E K \in {1, MaxK} :
         \E hm \in ConcHeatmaps(K, self.heatmap_size), C \in {2 * K - 1, 2 * K} :
            \E off \in OffsideInputs(C, self.heatmap_size) :
               calls' = [calls EXCEPT ![t] =
                           [Idle EXCEPT !.pc = "dec_copy", !.op = "decode",
                                        !.a1 = hm, !.a2 = off]]
    /\ UNCHANGED <<self, ctor, seq_vars>>

\* the two copies, the peak search, the split and the integer peaks
DecCopy(t) ==
    /\ calls[t].pc = "dec_copy"
    /\ calls' = [calls EXCEPT ![t] =
          LET heatmaps == calls[t].a1
              offside  == calls[t].a2
              K        == shape3(heatmaps)[1]
              peak     == get_heatmap_maximum(heatmaps)
          IN  [@ EXCEPT !.pc = "dec_loop",
                        !.loc = [ K      |-> K,
                                  scores |-> peak.vals,
                                  halves |-> split_offside(offside, K),
                                  keypoints_interger |->
                                     [k \in Ix(K) |-> [d \in Ix(2) |->
                                         astype_int32(peak.locs[k][d])]],
                                  keypoints_decimal |->
                                     [k \in Ix(K) |-> [d \in Ix(2) |-> RZero]],
                                  i |-> 0 ]]]
    /\ UNCHANGED <<self, ctor, seq_vars>>

\* one iteration of the loop
DecLoop(t) ==
    /\ calls[t].pc = "dec_loop"
    /\ calls' = [calls EXCEPT ![t] =
          LET l   == calls[t].loc
              got == decode_keypoint(l.halves[1], l.halves[2], l.i,
                                     l.keypoints_interger[l.i][0],
                                     l.keypoints_interger[l.i][1])
          IN  IF ~got.ok
              THEN [@ EXCEPT !.pc = "done", !.loc = <<>>,
                             !.ret = [status |-> "IndexError"]]
              ELSE [@ EXCEPT !.pc = IF l.i + 1 < l.K THEN "dec_loop"
                                                     ELSE "dec_rescale",
                             !.loc = [l EXCEPT !.keypoints_decimal[l.i] = got.val,
                                               !.i = l.i + 1]]]
    /\ UNCHANGED <<self, ctor, seq_vars>>

\* keypoints_decimal * self.scale_factor, and the return
DecRescale(t) ==
    /\ calls[t].pc = "dec_rescale"
    /\ calls' = [calls EXCEPT ![t] =
          [@ EXCEPT !.pc = "done", !.loc = <<>>,
                    !.ret = [ status    |-> "ok",
                              keypoints |-> [n \in Ix(1) |->
                                 mul_scale(calls[t].loc.keypoints_decimal,
                                           self.scale_factor)],
                              scores    |-> [n \in Ix(1) |-> calls[t].loc.scores] ]]]
    /\ UNCHANGED <<self, ctor, seq_vars>>

\* the caller takes the result
Return(t) ==
    /\ calls[t].pc = "done"
    /\ calls' = [calls EXCEPT ![t] = Idle]
    /\ UNCHANGED <<self, ctor, seq_vars>>

ConcNext ==
    \E t \in Threads :
        \/ CallEncode(t) \/ EncAssert(t) \/ EncHeatmaps(t) \/ EncOffside(t)
        \/ CallDecode(t) \/ DecCopy(t) \/ DecLoop(t) \/ DecRescale(t)
        \/ Return(t)

ConcSpec == ConcInit /\ [][ConcNext]_vars

\* ================================================================== claims
HmW == self.heatmap_size[1]
HmH == self.heatmap_size[2]
EncodeReturned == encoded.status = "ok"
EncK == Size(keypoints[0])
\* the keypoints of the last encode call in heatmap space
ScaledX(k) == RDiv(keypoints[0][k][0], self.scale_factor[0])
ScaledY(k) == RDiv(keypoints[0][k][1], self.scale_factor[1])
OnCell(k) ==
    /\ ScaledX(k)[2] = 1 /\ ScaledX(k)[1] \in Ix(HmW)
    /\ ScaledY(k)[2] = 1 /\ ScaledY(k)[1] \in Ix(HmH)
AllVisible ==
    \/ keypoints_visible.is_none
    \/ \A k \in Ix(EncK) : keypoints_visible.value[0][k] = 1
\* the last decode call was given K heatmaps and 2K displacement channels
\* of the codec's size
DecK == Size(given_heatmaps)
WellShaped ==
    /\ phase = "decoded"
    /\ DecK >= 1
    /\ shape3(given_heatmaps) = <<DecK, HmH, HmW>>
    /\ shape3(given_offside) = <<2 * DecK, HmH, HmW>>
\* the peak finder's answer for the heatmaps given to decode, as integers
Peaks ==
    LET locs == get_heatmap_maximum(given_heatmaps).locs
    IN  [k \in Ix(DecK) |-> [d \in Ix(2) |-> astype_int32(locs[k][d])]]
NoPeakAt(pk, k) == pk[k][0] = -1 /\ pk[k][1] = -1
RoundTripCall ==
    /\ phase = "decoded"
    /\ EncodeReturned
    /\ given_heatmaps = encoded.heatmaps
    /\ given_offside = encoded.displacements

\* C1: decoding what encode returned gives back every keypoint that lies
\* on a heatmap cell inside the grid, when all keypoints do and all are
\* visible.
C1_RoundTrip ==
    (RoundTripCall /\ AllVisible /\ \A k \in Ix(EncK) : OnCell(k))
    => /\ decoded.status = "ok"
       /\ Size(decoded.keypoints) = 1
       /\ Size(decoded.keypoints[0]) = EncK
       /\ \A k \in Ix(EncK) : decoded.keypoints[0][k] = keypoints[0][k]

C1_Witness ==
    /\ RoundTripCall /\ AllVisible /\ \A k \in Ix(EncK) : OnCell(k)
    /\ EncK = 2
    /\ HmW # HmH
    /\ ScaledX(0)[1] # ScaledY(0)[1]
    /\ self.scale_factor[0] # FromInt(1)
    /\ decoded.status = "ok"

\* C2: encode's displacement field holds kx - col in channel k and
\* ky - row in channel K + k, at every cell of the grid.
C2_OffsetField ==
    EncodeReturned
    => /\ shape3(encoded.displacements) = <<2 * EncK, HmH, HmW>>
       /\ \A k \in Ix(EncK), row \in Ix(HmH), col \in Ix(HmW) :
            /\ encoded.displacements[k][row][col]
                 = RSub(ScaledX(k), FromInt(col))
            /\ encoded.displacements[EncK + k][row][col]
                 = RSub(ScaledY(k), FromInt(row))

C2_Witness ==
    /\ EncodeReturned
    /\ EncK = 2
    /\ HmW > HmH /\ HmH > 1
    /\ ScaledX(0)[2] # 1
    /\ RLt(FromInt(HmW), ScaledX(1))
    /\ ScaledX(0) # ScaledY(0) /\ ScaledX(0) # ScaledX(1)
    /\ encoded.displacements[EncK + 1][HmH - 1][HmW - 1]
         = RSub(ScaledY(1), FromInt(HmH - 1))

\* C3 as stated: a channel with no peak decodes to (0, 0), whatever the
\* displacement field holds.
C3_NoPeakDecodesToOrigin ==
    WellShaped
    => LET pk == Peaks
       IN  \A k \in Ix(DecK) :
             NoPeakAt(pk, k)
             => /\ decoded.status = "ok"
                /\ decoded.keypoints[0][k] = [d \in Ix(2) |-> RZero]

\* C3 as amended: a channel with no peak decodes to the displacement stored
\* at cell (row 0, col 0) of its two channels, times the scale factor;
\* decode returns and reads no other cell for it.
C3_NoPeakDecodesOriginCell ==
    WellShaped
    => LET pk == Peaks
       IN  \A k \in Ix(DecK) :
             NoPeakAt(pk, k)
             => /\ decoded.status = "ok"
                /\ clamp(pk[k][0], pk[k][1]) = <<0, 0>>
                /\ decoded.keypoints[0][k][0]
                     = RMul(given_offside[k][0][0], self.scale_factor[0])
                /\ decoded.keypoints[0][k][1]
                     = RMul(given_offside[DecK + k][0][0], self.scale_factor[1])

C3_Witness ==
    /\ WellShaped
    /\ HmW > 1 /\ HmH > 1
    /\ \E k \in Ix(DecK) :
         /\ NoPeakAt(Peaks, k)
         /\ given_offside[k][0][0] # RZero
         /\ given_offside[k][0][0] # given_offside[k][HmH - 1][HmW - 1]
         /\ decoded.status = "ok"
         /\ decoded.keypoints[0][k][0] # RZero

\* C4: encode fails with the assertion error exactly when the number of
\* instances is not 1, and then returns nothing.
C4_SingleInstance ==
    encoded.status # "none"
    => /\ Size(keypoints) # 1 => encoded = [status |-> "AssertionError"]
       /\ Size(keypoints) = 1 => encoded.status = "ok"

C4_Witness ==
    /\ phase = "encoded"
    /\ Size(keypoints) = 2
    /\ encoded.status = "AssertionError"

\* C5: decode fails when the displacement field does not have twice as
\* many channels as there are heatmaps.
C5_ChannelMismatchFails ==
    (phase = "decoded" /\ Size(given_offside) # 2 * DecK)
    => decoded.status # "ok"

C9_Stated(k, x, y) ==
    LET xc == IF x >= 0 /\ y >= 0 THEN x ELSE 0
        yc == IF x >= 0 /\ y >= 0 THEN y ELSE 0
    IN  [d \in Ix(2) |->
           IF d = 0 THEN RAdd(FromInt(xc), given_offside[k][yc][xc])
                    ELSE RAdd(FromInt(yc), given_offside[DecK + k][yc][xc])]

\* C9: decode returns, for channel k with peak (x, y), the peak cell (or
\* cell (0, 0) when x or y is negative) plus the displacement stored there
\* in (channel, row, column) order, times the scale factor; the loop body
\* does so for every integer location, one negative coordinate included.
C9_LookupCell ==
    WellShaped
    => LET pk     == Peaks
           halves == split_offside(given_offside, DecK)
       IN  /\ decoded.status = "ok"
           /\ \A k \in Ix(DecK) :
                decoded.keypoints[0][k]
                  = [d \in Ix(2) |->
                       RMul(C9_Stated(k, pk[k][0], pk[k][1])[d],
                            self.scale_factor[d])]
           /\ \A k \in Ix(DecK), x \in -1 .. (HmW - 1), y \in -1 .. (HmH - 1) :
                LET got == decode_keypoint(halves[1], halves[2], k, x, y)
                IN  got.ok /\ got.val = C9_Stated(k, x, y)

C9_Witness ==
    /\ WellShaped
    /\ DecK = 2 /\ HmW = 3 /\ HmH = 2
    /\ Peaks[1] = [d \in Ix(2) |-> IF d = 0 THEN 2 ELSE 1]
    /\ Peaks[0] = [d \in Ix(2) |-> 1]
    /\ given_offside[1][1][2] # given_offside[3][1][2]
    /\ given_offside[1][1][2] # given_offside[0][1][2]
    /\ decoded.status = "ok"
    /\ decoded.keypoints[0][1][0]
         = RMul(RAdd(FromInt(2), given_offside[1][1][2]), self.scale_factor[0])

\* C10: with the displacement field encode returned, decode gives back the
\* encoded keypoints whatever heatmaps it is given, and the displacement
\* field is the same for every visibility argument.
C10_HeatmapIndependent ==
    /\ (phase = "decoded" /\ EncodeReturned
        /\ given_offside = encoded.displacements)
       => /\ decoded.status = "ok"
          /\ Size(decoded.keypoints[0]) = EncK
          /\ \A k \in Ix(EncK) : decoded.keypoints[0][k] = keypoints[0][k]
    /\ (phase = "encoded" /\ EncodeReturned)
       => \A v \in VisibleArgs(1, EncK) :
            LET other == encode(self, keypoints, v)
            IN  other.status = "ok"
                /\ other.displacements = encoded.displacements

C10_Witness ==
    /\ phase = "decoded" /\ EncodeReturned
    /\ given_offside = encoded.displacements
    /\ given_heatmaps # encoded.heatmaps
    /\ EncK = 2
    /\ ~keypoints_visible.is_none
    /\ keypoints_visible.value[0][0] = 0
    /\ NoPeakAt(Peaks, 0) /\ ~NoPeakAt(Peaks, 1)
    /\ ~OnCell(0)
    /\ RLt(ScaledY(1), RZero)
    /\ decoded.status = "ok"
    /\ decoded.keypoints[0][1] = keypoints[0][1]

\* the instance as __init__ made it
Constructed == SKPSHeatmap_init(ctor[1], ctor[2], ctor[3])

====
